---- MODULE Spec2Model ----
(***************************************************************************)
(* Token lifecycle of the Secure Attendance API (src/app.py).              *)
(*                                                                         *)
(* The process holds two globals, TOKENS (token -> (expires_at,            *)
(* session_id)) and CURRENT_SESSION_ID, and serves HTTP requests.  The     *)
(* handlers declared with "def" run on worker threads and interleave       *)
(* statement by statement; check_in is declared "async def" and contains   *)
(* no await, so it runs on the event loop from its first statement to its  *)
(* return, the blocking spreadsheet call included.  No handler takes a     *)
(* lock.                                                                   *)
(*                                                                         *)
(* Granularity: one action per statement that reads or writes a global.    *)
(* _clean_expired reads the clock and lists the store in one step          *)
(* (CleanSnap), which fixes the entries its loop will pop, and pops in a   *)
(* second (CleanLoop).  A request names a token some generate has already  *)
(* returned; the token is fixed when the handler's first statement runs,   *)
(* student_id and consume at their first use.                              *)
(***************************************************************************)
EXTENDS Integers, Sequences, FiniteSets, Bags, TLC

\* ---------------------------------------------------------------- bounds
\* the clock runs from 0 to MaxClock
MaxClock == 2

\* requests that can be in flight at once
Slots == {"r1", "r2"}
\* the strings secrets.token_urlsafe can return, in the order it returns them
Tokens == {"k1", "k2"}
\* the ids uuid4 can return: CURRENT_SESSION_ID starts at 0
SessionIds == {0, 1}
\* student_id form values: only whitespace, and an id with a trailing blank
StudentIds == {<<" ">>, <<"s", " ">>}
\* values of the TOKEN_TTL_SECONDS environment variable
TTLChoices == {1}
\* the same with the values int() also accepts: zero and a negative number
TTLValues == {-1, 0, 1}

Free == "free"
Busy == "check_in"
NoToken == "none"
NoInfo == [exp |-> -1, sid |-> -1]
NoStudent == <<>>

VARIABLES
    TOKEN_TTL_SECONDS,   \* configured TTL, read once at import
    TOKENS,              \* token -> [exp, sid]
    CURRENT_SESSION_ID,  \* the current session
    clock,               \* what _now() returns
    reqs,                \* the bag of requests in flight
    loop,                \* Busy while the event loop runs check_in, else Free
    sheet,               \* the bag of calls of append_attendance_row
    minted,              \* history: the session each token was inserted under
    mintLog              \* history: the expiry each token was inserted with

vars == <<TOKEN_TTL_SECONDS, TOKENS, CURRENT_SESSION_ID, clock, reqs, loop,
          sheet, minted, mintLog>>

\* ------------------------------------------------------- pure operators
_now == clock

IsSpace(c) == c = " "

RECURSIVE LStrip(_)
LStrip(s) == IF s # <<>> /\ IsSpace(Head(s)) THEN LStrip(Tail(s)) ELSE s

RECURSIVE RStrip(_)
RStrip(s) ==
    IF s # <<>> /\ IsSpace(s[Len(s)]) THEN RStrip(SubSeq(s, 1, Len(s) - 1)) ELSE s

\* str.strip()
Strip(s) == RStrip(LStrip(s))

\* a sweep that also pops the entries due to expire within the next second
SweepExpiredEarly(exp, now) == exp < now + 2

\* _clean_expired's test on one entry
SweepExpired(exp, now) == exp < now

\* check_in's own expiry test
CheckInExpired(now, exp) == now > exp

\* TOKENS.get(token)
Lookup(store, t) == IF t \in DOMAIN store THEN store[t] ELSE NoInfo

\* TOKENS.pop(token, None)
Pop(store, t) == [x \in DOMAIN store \ {t} |-> store[x]]

\* TOKENS[token] = (expires_at, session_id)
Insert(store, t, e) == [x \in DOMAIN store \cup {t} |-> IF x = t THEN e ELSE store[x]]

\* list(TOKENS.items()), as (token, exp) pairs
Items(store) == {<<t, store[t].exp>> : t \in DOMAIN store}

\* the tokens _clean_expired's loop pops
Swept(snap, now) == {i[1] : i \in {j \in snap : SweepExpired(j[2], now)}}

InFlight == BagToSet(reqs)

\* a token generator that may return again a string no longer in the store
FreshTokensReused ==
    Tokens \ (DOMAIN TOKENS \cup {r.token : r \in {q \in InFlight : q.op = "generate"}})

\* secrets.token_urlsafe(24): a string no earlier call has returned
DrawnTokens == DOMAIN minted \cup {r.token : r \in {q \in InFlight : q.op = "generate"}}
FreshTokens == IF "k1" \notin DrawnTokens THEN {"k1"} ELSE Tokens \ DrawnTokens

\* uuid.uuid4().hex: an id no earlier call has returned
FreshSession == CURRENT_SESSION_ID + 1

NewReq == [op |-> "none", pc |-> "new", token |-> NoToken, student |-> NoStudent,
           consume |-> FALSE, now |-> 0, snap |-> {}, info |-> NoInfo,
           exp |-> 0, status |-> 0, detail |-> "", session_id |-> -1]

\* the first statement of each handler
FirstPc(op) ==
    IF op \in {"healthz", "home", "start_session"} THEN op ELSE "clean_snap"

\* the first statement after _clean_expired() in each handler
AfterClean(op) ==
    CASE op = "generate" -> "gen_expiry"
      [] op = "scan_page" -> "scan_get"
      [] op = "check_in" -> "ci_get"
      [] op = "validate" -> "val_get"

\* check_in declared def instead of async def: it never holds the loop
LoopNeverHeld(op) == Free

\* the event loop once a request of handler op is started: an async def
\* handler runs on the loop itself, a def handler on a worker thread
LoopAfterDispatch(op) == IF op = "check_in" THEN Busy ELSE Free

\* a request consumes its token: check_in, and validate with consume=true
Consuming(r) == r.op = "check_in" \/ (r.op = "validate" /\ r.consume)

\* A request completes: the handler's locals are gone, the response stays
\* until it is sent. The token and the consume flag of the request and the
\* status code of the response are kept; the detail of a 401 and the
\* session_id generate returns are added where they are produced.
Finish(r, st) ==
    [NewReq EXCEPT !.pc = "done", !.op = r.op, !.status = st,
                   !.token = IF r.op = "generate" THEN NoToken ELSE r.token,
                   !.consume = r.consume]

\* raise HTTPException(status_code=401, detail=d)
Refuse(r, d) == [Finish(r, 401) EXCEPT !.detail = d]

\* the detail of the 401 raised when the lookup finds nothing
InvalidOrExpired == "Invalid or expired token"
\* the detail of the 401 check_in raises on its own expiry test
TokenExpired == "Token expired"

\* request r goes on as r2
Becomes(r, r2) == reqs' = (reqs (-) SetToBag({r})) (+) SetToBag({r2})

\* ------------------------------------------------------------------ Init
Init ==
    /\ TOKEN_TTL_SECONDS \in TTLChoices
    /\ TOKENS = <<>>
    /\ CURRENT_SESSION_ID = 0
    /\ clock = 0
    /\ reqs = EmptyBag
    /\ loop = Free
    /\ sheet = EmptyBag
    /\ minted = <<>>
    /\ mintLog = <<>>

\* the state after import when the environment may hold any integer
InitAnyTTL ==
    /\ TOKEN_TTL_SECONDS \in TTLValues
    /\ TOKENS = <<>>
    /\ CURRENT_SESSION_ID = 0
    /\ clock = 0
    /\ reqs = EmptyBag
    /\ loop = Free
    /\ sheet = EmptyBag
    /\ minted = <<>>
    /\ mintLog = <<>>

\* ------------------------------------------------------------- requests
\* The server accepts a request and starts its handler. Accepting needs the
\* event loop.
Start(op) ==
    /\ BagCardinality(reqs) < Cardinality(Slots)
    /\ loop = Free
    /\ reqs' = reqs (+) SetToBag({[NewReq EXCEPT !.op = op, !.pc = FirstPc(op)]})
    /\ loop' = LoopAfterDispatch(op)
    /\ UNCHANGED <<TOKEN_TTL_SECONDS, mintLog, TOKENS, CURRENT_SESSION_ID, clock, sheet,
                   minted>>

\* the tokens a client can know: those a finished generate has returned
Published ==
    DOMAIN minted \ {r.token : r \in {q \in InFlight : q.op = "generate"}}

\* the token parameter of a request of handler op: a published token for a
\* handler that takes one
TokenParams(op) ==
    IF op \in {"scan_page", "check_in", "validate"} THEN Published ELSE {NoToken}

RequestGenerate ==
    /\ FreshTokens # {}
    /\ Start("generate")

RequestScanPage == Published # {} /\ Start("scan_page")

RequestCheckIn == Published # {} /\ Start("check_in")

RequestValidate == Published # {} /\ Start("validate")

RequestStartSession ==
    /\ FreshSession \in SessionIds
    /\ Start("start_session")

RequestHealthz == Start("healthz")

RequestHome == Start("home")

\* The response is sent. Sending needs the event loop.
Respond(r) ==
    /\ r.pc = "done"
    /\ loop = Free
    /\ reqs' = reqs (-) SetToBag({r})
    /\ UNCHANGED <<TOKEN_TTL_SECONDS, mintLog, TOKENS, CURRENT_SESSION_ID, clock, loop,
                   sheet, minted>>

\* time passes
Tick ==
    /\ clock < MaxClock
    /\ clock' = clock + 1
    /\ UNCHANGED <<TOKEN_TTL_SECONDS, mintLog, TOKENS, CURRENT_SESSION_ID, reqs, loop,
                   sheet, minted>>

\* ------------------------------------------------------- _clean_expired
CleanSnap(r) ==
    /\ r.pc = "clean_snap"
    /\ \E t \in TokenParams(r.op) :
          Becomes(r, [r EXCEPT !.token = t, !.now = _now,
                               !.snap = Swept(Items(TOKENS), _now),
                               !.pc = "clean_loop"])
    /\ UNCHANGED <<TOKEN_TTL_SECONDS, mintLog, TOKENS, CURRENT_SESSION_ID, clock, loop,
                   sheet, minted>>

CleanLoop(r) ==
    /\ r.pc = "clean_loop"
    /\ TOKENS' = [x \in DOMAIN TOKENS \ r.snap |-> TOKENS[x]]
    /\ Becomes(r, [r EXCEPT !.snap = {}, !.now = 0, !.pc = AfterClean(r.op)])
    /\ UNCHANGED <<TOKEN_TTL_SECONDS, mintLog, CURRENT_SESSION_ID, clock, loop, sheet,
                   minted>>

\* ------------------------------------------------------------- generate
GenExpiry(r) ==
    /\ r.pc = "gen_expiry"
    /\ \E t \in FreshTokens :
          Becomes(r, [r EXCEPT !.token = t, !.exp = _now + TOKEN_TTL_SECONDS,
                               !.pc = "gen_insert"])
    /\ UNCHANGED <<TOKEN_TTL_SECONDS, mintLog, TOKENS, CURRENT_SESSION_ID, clock, loop,
                   sheet, minted>>

Store(r) ==
    /\ r.pc = "gen_insert"
    /\ TOKENS' = Insert(TOKENS, r.token, [exp |-> r.exp, sid |-> CURRENT_SESSION_ID])
    /\ minted' = Insert(minted, r.token, CURRENT_SESSION_ID)
    /\ Becomes(r, [r EXCEPT !.exp = 0, !.pc = "gen_return"])
    /\ UNCHANGED <<TOKEN_TTL_SECONDS, CURRENT_SESSION_ID, clock, loop, sheet>>

GenInsert(r) == Store(r) /\ UNCHANGED mintLog

\* the same step, with the expiry it stores written to the history
GenInsertLogged(r) == Store(r) /\ mintLog' = Insert(mintLog, r.token, r.exp)

GenReturn(r) ==
    /\ r.pc = "gen_return"
    /\ Becomes(r, [Finish(r, 200) EXCEPT !.session_id = CURRENT_SESSION_ID])
    /\ UNCHANGED <<TOKEN_TTL_SECONDS, mintLog, TOKENS, CURRENT_SESSION_ID, clock, loop,
                   sheet, minted>>

\* ------------------------------------------------------------ scan_page
ScanGet(r, t) ==
    /\ r.pc = "scan_get"
    /\ t = r.token
    /\ LET r2 == [r EXCEPT !.token = t]
       IN Becomes(r, IF Lookup(TOKENS, t) = NoInfo THEN Finish(r2, 401)
                     ELSE Finish(r2, 200))
    /\ UNCHANGED <<TOKEN_TTL_SECONDS, mintLog, TOKENS, CURRENT_SESSION_ID, clock, loop,
                   sheet, minted>>

\* ------------------------------------------------------------- check_in
CiGet(r, t, s) ==
    /\ r.pc = "ci_get"
    /\ t = r.token
    /\ LET info == Lookup(TOKENS, t)
       IN IF info = NoInfo
          THEN /\ Becomes(r, Refuse([r EXCEPT !.token = t], InvalidOrExpired))
               /\ loop' = Free
          ELSE /\ Becomes(r, [r EXCEPT !.token = t, !.student = s, !.info = info,
                                       !.pc = "ci_expiry"])
               /\ loop' = loop
    /\ UNCHANGED <<TOKEN_TTL_SECONDS, mintLog, TOKENS, CURRENT_SESSION_ID, clock, sheet,
                   minted>>

CiExpiry(r) ==
    /\ r.pc = "ci_expiry"
    /\ IF CheckInExpired(_now, r.info.exp)
       THEN /\ TOKENS' = Pop(TOKENS, r.token)
            /\ Becomes(r, Refuse(r, TokenExpired))
            /\ loop' = Free
       ELSE /\ Becomes(r, [r EXCEPT !.pc = "ci_pop"])
            /\ UNCHANGED <<TOKENS, loop>>
    /\ UNCHANGED <<TOKEN_TTL_SECONDS, mintLog, CURRENT_SESSION_ID, clock, sheet, minted>>

\* check_in without line 192: the entry stays in the store
CiPopSkipped(r) ==
    /\ r.pc = "ci_pop"
    /\ Becomes(r, [r EXCEPT !.pc = "ci_append"])
    /\ UNCHANGED <<TOKEN_TTL_SECONDS, mintLog, TOKENS, CURRENT_SESSION_ID, clock,
                   loop, sheet, minted>>

CiPop(r) ==
    /\ r.pc = "ci_pop"
    /\ TOKENS' = Pop(TOKENS, r.token)
    /\ Becomes(r, [r EXCEPT !.pc = "ci_append"])
    /\ UNCHANGED <<TOKEN_TTL_SECONDS, mintLog, CURRENT_SESSION_ID, clock, loop, sheet,
                   minted>>

\* One call of append_attendance_row(session_id, token, student_id), as the
\* sheet sees it: the row it writes holds the session id (the stripped
\* student id and the token's last six characters are left out), and ok
\* tells whether the call returned or raised.
\* a row stamped with the session current at the append
RowCurrentSession(r, ok) ==
    [session_id |-> CURRENT_SESSION_ID, token |-> r.token, ok |-> ok]

Row(r, ok) == [session_id |-> r.info.sid, token |-> r.token, ok |-> ok]

CiAppendOk(r) ==
    /\ r.pc = "ci_append"
    /\ sheet' = sheet (+) SetToBag({Row(r, TRUE)})
    /\ Becomes(r, Finish(r, 200))
    /\ loop' = Free
    /\ UNCHANGED <<TOKEN_TTL_SECONDS, mintLog, TOKENS, CURRENT_SESSION_ID, clock, minted>>

\* a failed append after which the event loop is never given back
CiAppendFailWedged(r) ==
    /\ r.pc = "ci_append"
    /\ sheet' = sheet (+) SetToBag({Row(r, FALSE)})
    /\ Becomes(r, Finish(r, 500))
    /\ UNCHANGED <<TOKEN_TTL_SECONDS, mintLog, TOKENS, CURRENT_SESSION_ID, clock,
                   loop, minted>>

\* a failed append that puts the token back into the store
CiAppendFailRefund(r) ==
    /\ r.pc = "ci_append"
    /\ sheet' = sheet (+) SetToBag({Row(r, FALSE)})
    /\ TOKENS' = Insert(TOKENS, r.token, r.info)
    /\ Becomes(r, Finish(r, 500))
    /\ loop' = Free
    /\ UNCHANGED <<TOKEN_TTL_SECONDS, mintLog, CURRENT_SESSION_ID, clock, minted>>

CiAppendFail(r) ==
    /\ r.pc = "ci_append"
    /\ sheet' = sheet (+) SetToBag({Row(r, FALSE)})
    /\ Becomes(r, Finish(r, 500))
    /\ loop' = Free
    /\ UNCHANGED <<TOKEN_TTL_SECONDS, mintLog, TOKENS, CURRENT_SESSION_ID, clock, minted>>

\* ------------------------------------------------------------- validate
\* validate that pops whatever the consume parameter says
ValGetAlwaysPops(r, t, c) ==
    /\ r.pc = "val_get"
    /\ t = r.token
    /\ LET info == Lookup(TOKENS, t)
           r2 == [r EXCEPT !.token = t, !.consume = c]
       IN Becomes(r, IF info = NoInfo THEN Refuse(r2, InvalidOrExpired)
                     ELSE [r2 EXCEPT !.info = info, !.pc = "val_pop"])
    /\ UNCHANGED <<TOKEN_TTL_SECONDS, mintLog, TOKENS, CURRENT_SESSION_ID, clock, loop,
                   sheet, minted>>

ValGet(r, t, c) ==
    /\ r.pc = "val_get"
    /\ t = r.token
    /\ LET info == Lookup(TOKENS, t)
           r2 == [r EXCEPT !.token = t, !.consume = c]
       IN Becomes(r, IF info = NoInfo THEN Refuse(r2, InvalidOrExpired)
                     ELSE IF c THEN [r2 EXCEPT !.info = info, !.pc = "val_pop"]
                     ELSE Finish(r2, 200))
    /\ UNCHANGED <<TOKEN_TTL_SECONDS, mintLog, TOKENS, CURRENT_SESSION_ID, clock, loop,
                   sheet, minted>>

ValPop(r) ==
    /\ r.pc = "val_pop"
    /\ TOKENS' = Pop(TOKENS, r.token)
    /\ Becomes(r, Finish(r, 200))
    /\ UNCHANGED <<TOKEN_TTL_SECONDS, mintLog, CURRENT_SESSION_ID, clock, loop, sheet,
                   minted>>

\* ------------------------------------------- start_session, healthz, home
StartSession(r) ==
    /\ r.pc = "start_session"
    /\ CURRENT_SESSION_ID' = FreshSession
    /\ Becomes(r, Finish(r, 200))
    /\ UNCHANGED <<TOKEN_TTL_SECONDS, mintLog, TOKENS, clock, loop, sheet, minted>>

Healthz(r) ==
    /\ r.pc = "healthz"
    /\ Becomes(r, Finish(r, 200))
    /\ UNCHANGED <<TOKEN_TTL_SECONDS, mintLog, TOKENS, CURRENT_SESSION_ID, clock, loop,
                   sheet, minted>>

Home(r) ==
    /\ r.pc = "home"
    /\ Becomes(r, Finish(r, 200))
    /\ UNCHANGED <<TOKEN_TTL_SECONDS, mintLog, TOKENS, CURRENT_SESSION_ID, clock, loop,
                   sheet, minted>>

\* ------------------------------------------------------------------ Next
\* every step but the store of generate and those of /session/start
Serve ==
    \/ Tick
    \/ RequestGenerate
    \/ RequestScanPage
    \/ RequestCheckIn
    \/ RequestValidate
    \/ RequestHealthz
    \/ RequestHome
    \/ \E r \in InFlight : Respond(r)
    \/ \E r \in InFlight : CleanSnap(r)
    \/ \E r \in InFlight : CleanLoop(r)
    \/ \E r \in InFlight : GenExpiry(r)
    \/ \E r \in InFlight : GenReturn(r)
    \/ \E r \in InFlight, t \in DOMAIN minted : ScanGet(r, t)
    \/ \E r \in InFlight, t \in DOMAIN minted, s \in StudentIds : CiGet(r, t, s)
    \/ \E r \in InFlight : CiExpiry(r)
    \/ \E r \in InFlight : CiPop(r)
    \/ \E r \in InFlight : CiAppendOk(r)
    \/ \E r \in InFlight : CiAppendFail(r)
    \/ \E r \in InFlight, t \in DOMAIN minted, c \in BOOLEAN : ValGet(r, t, c)
    \/ \E r \in InFlight : ValPop(r)
    \/ \E r \in InFlight : Healthz(r)
    \/ \E r \in InFlight : Home(r)

Rotate ==
    \/ RequestStartSession
    \/ \E r \in InFlight : StartSession(r)

Next ==
    \/ Serve
    \/ Rotate
    \/ \E r \in InFlight : GenInsert(r)

Spec == Init /\ [][Next]_vars

\* The service while one session lasts (no /session/start), with the history
\* of the expiries minted.
NextOneSession ==
    \/ Serve
    \/ \E r \in InFlight : GenInsertLogged(r)

SpecOneSession == Init /\ [][NextOneSession]_vars

\* one session, any integer TTL
SpecAnyTTL == InitAnyTTL /\ [][NextOneSession]_vars

\* ------------------------------------------------------------ properties
\* the token was in the store once and is no longer
Removed(t) == t \in DOMAIN minted /\ t \notin DOMAIN TOKENS

\* how many requests of the bag satisfy P
RECURSIVE Copies(_, _)
Copies(S, b) ==
    IF S = {} THEN 0
    ELSE LET r == CHOOSE x \in S : TRUE
         IN CopiesIn(r, b) + Copies(S \ {r}, b)

\* the consuming requests that returned success on token t
Successes(t) ==
    {r \in InFlight : r.pc = "done" /\ r.status = 200 /\ Consuming(r) /\ r.token = t}

\* the calls of append_attendance_row made for token t
RowsOf(t) == {row \in BagToSet(sheet) : row.token = t}

\* C1: of the consuming requests (check_in, validate with consume=true) made
\* on one token, at most one returns success.
SingleConsumption ==
    \A t \in Tokens : Copies(Successes(t), reqs) <= 1

\* C2: over the whole run the attendance sink is called at most once for
\* any one token, whether the call succeeds or fails.
AtMostOneAppend ==
    \A t \in Tokens : Copies(RowsOf(t), sheet) <= 1

\* a check_in retried on a token whose row is written has been refused
AppendThenRetry ==
    \E t \in Tokens :
        /\ RowsOf(t) # {}
        /\ \E r \in InFlight :
               r.op = "check_in" /\ r.pc = "done" /\ r.status = 401 /\ r.token = t

\* the check_in requests at one statement of the handler
CheckInAt(pc) == {r \in InFlight : r.op = "check_in" /\ r.pc = pc}

\* the step in which a check_in passes or fails its expiry test passes it
\* exactly when the clock is before the expiry of the entry
ExpiryDecision ==
    \A r \in CheckInAt("ci_expiry") :
        CheckInAt("ci_expiry")' = {} =>
            (CheckInAt("ci_pop")' # {} <=> clock < r.info.exp)

\* an entry leaves the store before its expiry only by being consumed
NoEarlyRemoval ==
    \A t \in DOMAIN TOKENS \ DOMAIN TOKENS' :
        \/ clock >= TOKENS[t].exp
        \/ \E r \in InFlight : r.token = t /\ (CiPop(r) \/ ValPop(r))

\* C3: a token minted at clock time T with TTL t and not yet consumed is
\* refused by check_in at every clock time >= T + t, the time T + t itself
\* included, and accepted at every clock time < T + t.
ExpiryMonotonicity == [][ExpiryDecision /\ NoEarlyRemoval]_vars

\* the requests in flight that found token t in the store
Finders(t) ==
    {r \in InFlight :
        /\ r.op # "generate" /\ r.token = t
        /\ \/ r.pc \in {"ci_expiry", "ci_pop", "ci_append", "val_pop"}
           \/ r.pc = "done" /\ r.status # 401}

\* C4: once a token has left the store, by consumption, refusal as expired
\* or sweep, it never returns to it, and no request that looks it up
\* afterwards finds it: check_in and validate on it return 401 for ever.
NoResurrection ==
    [][\A t \in Tokens :
          Removed(t) => /\ Removed(t)'
                        /\ Copies(Finders(t), reqs)' <= Copies(Finders(t), reqs)]_vars

\* a validate on a token that has left the store has returned 401
LateCallRefused ==
    \E t \in Tokens :
        /\ Removed(t)
        /\ \E r \in InFlight :
               r.op = "validate" /\ r.pc = "done" /\ r.status = 401 /\ r.token = t

\* every copy of a token's session id is the one it was minted with
SessionKept ==
    /\ \A t \in DOMAIN TOKENS : TOKENS[t].sid = minted[t]
    /\ \A r \in InFlight : r.info # NoInfo => r.info.sid = minted[r.token]
    /\ \A row \in BagToSet(sheet) : row.session_id = minted[row.token]

\* a step that changes the current session changes no entry of the store
RotationKeepsStore ==
    CURRENT_SESSION_ID' # CURRENT_SESSION_ID => TOKENS' = TOKENS

\* a check_in whose lookup ends in a refusal asked for a token not stored
RefusedOnlyIfAbsent ==
    (CheckInAt("ci_get") # {} /\ CheckInAt("ci_get")' = {}
                             /\ CheckInAt("ci_expiry")' = {}) =>
        \E q \in BagToSet(reqs') :
            /\ q.op = "check_in" /\ q.pc = "done" /\ q.status = 401
            /\ q.token \notin DOMAIN TOKENS

\* a check_in on an entry whose expiry is ahead of the clock goes on to consume
AcceptedIfUnexpired ==
    \A r \in CheckInAt("ci_expiry") :
        (CheckInAt("ci_expiry")' = {} /\ clock < r.info.exp) =>
            CheckInAt("ci_pop")' # {}

\* C5: the session id stored with a token at mint time never changes:
\* start_session changes only the current session, a token minted before
\* any number of rotations is still accepted while unexpired, and its
\* attendance row carries the session it was minted in.
SessionBinding ==
    /\ []SessionKept
    /\ [][RotationKeepsStore /\ RefusedOnlyIfAbsent /\ AcceptedIfUnexpired]_vars

\* a row is written for a token minted in a session that is no longer current
RowOfEarlierSession ==
    \E row \in BagToSet(sheet) : row.ok /\ row.session_id # CURRENT_SESSION_ID

\* C6: check_in removes the token from the store before it calls the
\* attendance sink: while the sink is being called, and ever after, the
\* token is not in the store.
ConsumeBeforeWrite ==
    /\ \A r \in CheckInAt("ci_append") : r.token \notin DOMAIN TOKENS
    /\ \A row \in BagToSet(sheet) : row.token \notin DOMAIN TOKENS

\* a check_in is in its call of the sink, its token gone from the store
AppendInProgress ==
    \E r \in CheckInAt("ci_append") : Removed(r.token)

\* the calls of the sink for token t that raised
FailedRows(t) == {row \in RowsOf(t) : ~row.ok}

\* the finished check_in requests on token t with status st
CheckInsDone(t, st) ==
    {r \in InFlight : r.op = "check_in" /\ r.pc = "done" /\ r.token = t /\ r.status = st}

\* after a failed append the token is not stored, and every check_in on it
\* is before its lookup or has ended, one with 500 and the others with 401
SinkFailureKept ==
    \A t \in Tokens :
        FailedRows(t) # {} =>
            /\ t \notin DOMAIN TOKENS
            /\ \A r \in InFlight :
                   (r.op = "check_in" /\ r.token = t) =>
                       \/ r.pc \in {"clean_loop", "ci_get"}
                       \/ r.pc = "done" /\ r.status \in {500, 401}
            /\ Copies(CheckInsDone(t, 500), reqs) <= 1

\* the step in which the sink raises ends the request with 500, the token
\* out of the store
SinkFailureStep ==
    \A t \in Tokens :
        Copies(FailedRows(t), sheet)' > Copies(FailedRows(t), sheet) =>
            /\ t \notin DOMAIN TOKENS'
            /\ CheckInAt("ci_append")' = {}
            /\ Copies(CheckInsDone(t, 500), reqs)' = Copies(CheckInsDone(t, 500), reqs) + 1

\* C7: when the sink raises after check_in has consumed the token, the
\* caller gets the 500 server error, the token is not put back, and a later
\* check_in with the same token is refused with 401.
SinkFailure == []SinkFailureKept /\ [][SinkFailureStep]_vars

\* the sink raised for a token and a retried check_in on it was refused
FailedThenRetried ==
    \E t \in Tokens : FailedRows(t) # {} /\ CheckInsDone(t, 401) # {}

\* C8: a check_in whose student id is empty after trimming whitespace is
\* turned away before the token is consumed: none is ever past the pop, in
\* its call of the sink.
InputValidationFirst ==
    \A r \in CheckInAt("ci_append") : Strip(r.student) # <<>>

\* C9: while a check_in is inside the sink append, which may hang, the rest
\* of the service goes on: a new generate or check_in request is started
\* when a connection is free, and a finished request gets its response.
SinkStallIsolated ==
    CheckInAt("ci_append") # {} =>
        /\ BagCardinality(reqs) < Cardinality(Slots) =>
               /\ ENABLED RequestCheckIn
               /\ FreshTokens # {} => ENABLED RequestGenerate
        /\ \A q \in InFlight : q.pc = "done" => ENABLED Respond(q)

\* the tokens inserted with an expiry not before now: those minted in the
\* TTL window that ends at now, or later
MintedSince(now) == {t \in DOMAIN mintLog : mintLog[t] >= now}

\* C10: immediately after a sweep that read clock time now the
\* store holds no entry whose expiry has passed as of now, and its size
\* equals the number of tokens minted within the last TTL window.
BoundedMemory ==
    [][\A r \in InFlight :
          CleanLoop(r) =>
              /\ \A t \in DOMAIN TOKENS' : TOKENS'[t].exp >= r.now
              /\ Cardinality(DOMAIN TOKENS') = Cardinality(MintedSince(r.now))]_vars

\* the check_in requests refused as unauthorized, their responses not yet sent
Unauthorized ==
    {r \in InFlight : r.op = "check_in" /\ r.pc = "done" /\ r.status = 401}

\* C11: check_in answers a token that is not in the store and a token that
\* is in the store but expired with the same response: any two of its 401
\* responses have the same status and the same detail.
UndifferentiatedRejection ==
    \A r, q \in Unauthorized : r.status = q.status /\ r.detail = q.detail

\* the requests that have reported token t as valid: a check_in past its
\* expiry test, a validate or scan_page past its lookup
Accepters(t) ==
    {r \in InFlight :
        /\ r.op \in {"check_in", "validate", "scan_page"} /\ r.token = t
        /\ \/ r.pc \in {"ci_pop", "ci_append", "val_pop"}
           \/ r.pc = "done" /\ r.status # 401}

\* C12: no check_in, validate or scan_page reports a token as valid when
\* its entry is still in the store but the clock is past its expiry, even
\* if the clock advanced after the operation's own sweep.
NoExpiredAccepted ==
    [][\A t \in DOMAIN TOKENS :
          Copies(Accepters(t), reqs)' > Copies(Accepters(t), reqs) =>
              clock <= TOKENS[t].exp]_vars

\* the records a step adds to the requests in flight
Added == {q \in BagToSet(reqs') : CopiesIn(q, reqs') > CopiesIn(q, reqs)}

\* C13: the session_id generate returns is the session id stored with the
\* token it has just inserted, also when start_session runs between the
\* insert and the construction of the response.
IssuedSessionIsStored ==
    [][\A r \in InFlight :
          GenReturn(r) => \A q \in Added : q.session_id = minted[r.token]]_vars

\* the check_in requests still in their handler
RunningCheckIns == {r \in InFlight : r.op = "check_in" /\ r.pc # "done"}

\* the record a step takes from the requests in flight
Moved == {r \in InFlight : CopiesIn(r, reqs') < CopiesIn(r, reqs)}

\* a step of a check_in leaves the entry of every other token that is
\* unexpired as it was
CheckInKeepsOthers ==
    \A r \in Moved :
        r.op = "check_in" =>
            \A t \in DOMAIN TOKENS :
                (t # r.token /\ clock < TOKENS[t].exp) =>
                    t \in DOMAIN TOKENS' /\ TOKENS'[t] = TOKENS[t]

\* when no check_in is in its handler the event loop is free, and a new
\* check_in is started if a connection is free
NotWedged ==
    RunningCheckIns = {} =>
        /\ loop = Free
        /\ (Published # {} /\ BagCardinality(reqs) < Cardinality(Slots)) =>
               ENABLED RequestCheckIn

\* C14: a check_in that ends in a failure leaves the entries of the other
\* unexpired, unconsumed tokens unchanged and the service able to take the
\* next check_in, which is accepted on any of them before its expiry.
FailureDoesNotWedge ==
    /\ []NotWedged
    /\ [][CheckInKeepsOthers /\ RefusedOnlyIfAbsent /\ AcceptedIfUnexpired]_vars

\* a check_in on one token has failed and a later check_in on another
\* token has been accepted and is writing its row
FailedThenOtherAccepted ==
    \E k, t \in Tokens :
        /\ k # t
        /\ FailedRows(k) # {} \/ CheckInsDone(k, 401) # {}
        /\ \E r \in CheckInAt("ci_append") : r.token = t

\* with a TTL that is not positive nothing is ever in the store
NothingMinted == TOKEN_TTL_SECONDS <= 0 => DOMAIN TOKENS = {}

\* the expiry generate computes for a token is after the clock time of the
\* computation
ExpiryAfterMint ==
    \A q \in Added : (q.op = "generate" /\ q.pc = "gen_insert") => q.exp > clock

\* C15: a configured TTL of zero or less is an error at startup: no token
\* is ever minted under it, and no token is minted with an expiry at or
\* before its mint time.
NonPositiveTTLRefused == []NothingMinted /\ [][ExpiryAfterMint]_vars

\* the step that ends a sweep removes no entry whose expiry is after the
\* clock reading of the sweep, and leaves every entry it keeps as it was
SweepKeepsUnexpired ==
    \A r \in InFlight :
        CleanLoop(r) =>
            /\ \A t \in DOMAIN TOKENS : TOKENS[t].exp > r.now => t \in DOMAIN TOKENS'
            /\ \A t \in DOMAIN TOKENS' : t \in DOMAIN TOKENS /\ TOKENS'[t] = TOKENS[t]

\* C16: _clean_expired never removes an entry whose expiry has not passed
\* as of the sweep's clock reading and never changes the expiry or the
\* session id of an entry it keeps, so an unexpired token survives the
\* sweeps of any number of calls.
SweepOnlyExpired == [][SweepKeepsUnexpired]_vars

\* a sweep is at its loop with an expired entry to pop and an unexpired
\* entry of another token in the store
SweepWithSurvivor ==
    \E r \in InFlight :
        /\ r.pc = "clean_loop"
        /\ r.snap # {} /\ r.snap \subseteq DOMAIN TOKENS
        /\ \E t \in DOMAIN TOKENS \ r.snap : t # r.token /\ TOKENS[t].exp > r.now

\* a step of scan_page, healthz, home, or of validate other than its pop,
\* leaves the entry of every unexpired token as it was
ReadsKeepEntries ==
    \A r \in Moved :
        (r.op \in {"scan_page", "healthz", "home"}
            \/ (r.op = "validate" /\ r.pc # "val_pop")) =>
                \A t \in DOMAIN TOKENS :
                    clock < TOKENS[t].exp =>
                        t \in DOMAIN TOKENS' /\ TOKENS'[t] = TOKENS[t]

\* only a validate called with consume=true reaches the pop
PeekNeverPops ==
    \A r \in InFlight : (r.op = "validate" /\ r.pc = "val_pop") => r.consume

\* C17: scan_page, validate with consume=false, healthz and home never
\* remove or change the entry of an unexpired token, so a check_in on it
\* before its expiry is still accepted and writes one row, not more.
ReadsPreserveTokens ==
    /\ [](PeekNeverPops /\ AtMostOneAppend)
    /\ [][ReadsKeepEntries /\ RefusedOnlyIfAbsent /\ AcceptedIfUnexpired]_vars

\* a validate with consume=false has found a token and a check_in on the
\* same token has written its row
PeekThenCheckIn ==
    \E t \in Tokens :
        /\ \E row \in RowsOf(t) : row.ok
        /\ \E r \in InFlight :
               /\ r.op = "validate" /\ ~r.consume
               /\ r.pc = "done" /\ r.status = 200 /\ r.token = t

====
